---- MODULE Spec2Model ----
(***************************************************************************)
(* Model of spdk-sys/build.rs: the build script that fetches, configures   *)
(* and builds SPDK, aggregates its static archives into libspdk_fat.so,    *)
(* emits the cargo link directives and generates the bindings.             *)
(*                                                                         *)
(* One run of the script is main(); an external process (git, bash, make,  *)
(* cc) is an environment step whose exit status is chosen                  *)
(* nondeterministically.  A panic ends the run.  The file system (the      *)
(* spdk/.git marker and the aggregated library) outlives a run, so that a  *)
(* second run of the script can be observed.                               *)
(***************************************************************************)
EXTENDS Integers, Sequences, FiniteSets, TLC

----------------------------------------------------------------------------
(* Bounds *)

\* number of consecutive runs of the build script
MaxRuns == 2
\* total number of directory entries in build/lib and dpdk/build/lib
MaxEntries == 2
\* number of declarations in wrapper.h
MaxDecls == 1

----------------------------------------------------------------------------
(* Environment of the build script.  cargo sets OUT_DIR and NUM_JOBS for   *)
(* every build script, so the env::var(..).unwrap() calls do not fail.     *)

\* env::current_dir()
CurrentDir == "/crate/spdk-sys"
\* values cargo may set OUT_DIR / NUM_JOBS to; the architectures the script
\* may be compiled for
OutDirs == {"/target/build/spdk-sys-1/out", "/target/build/spdk-sys-2/out"}
NumJobs == {"1", "8"}
Archs == {"aarch64", "x86_64"}

\* ExitStatus codes of a child process; SpawnErr stands for the Err of
\* Command::status() (the process could not be started)
SpawnErr == -1
ExitCodes == {0, 1}
Outcomes == ExitCodes \cup {SpawnErr}

\* ExitStatus::success
success(status) == status = 0

\* Display of ExitStatus
DisplayStatus(status) == "exit status: " \o ToString(status)

\* Path::join
Join(base, name) == base \o "/" \o name

\* str::starts_with / str::ends_with
starts_with(s, p) == Len(s) >= Len(p) /\ SubSeq(s, 1, Len(p)) = p
ends_with(s, p) == Len(s) >= Len(p) /\ SubSeq(s, Len(s) - Len(p) + 1, Len(s)) = p

\* src of main and build_from_source
src == Join(CurrentDir, "spdk")

\* dst of build_from_source
dst(out_dir) == Join(out_dir, "libspdk_fat.so")

----------------------------------------------------------------------------
(* Panic messages *)

NoPanic == ""
\* Result::unwrap on Err, Option::unwrap on None
UnwrapErrMsg == "called Result::unwrap() on an Err value: Os { code: 2, kind: NotFound }"
UnwrapNoneMsg == "called Option::unwrap() on a None value"
\* Result::expect(msg) on Err
ExpectMsg(msg) == msg \o ": Os { code: 2, kind: NotFound }"
\* assert!(cond, "{msg}: {}", status)
AssertMsg(msg, status) == msg \o ": " \o DisplayStatus(status)

----------------------------------------------------------------------------
VARIABLES
    pc,             \* position of the run in main / build_from_source
    run,            \* number of the current run
    OUT_DIR,        \* env: OUT_DIR
    NUM_JOBS,       \* env: NUM_JOBS
    target_arch,    \* cfg(target_arch) the script was compiled with
    marker,         \* file system: spdk/.git exists
    markerAtStart,  \* marker when the current run started
    fetched,        \* file system: spdk/.git was left by a fetch of the script
    invoked,        \* stages invoked in this run, with their exit status
                    \* (scan and bindgen: 0 for Ok, 1 for Err)
    make_cmd,       \* argument vector of the make invocation of this run
    spdks,          \* build_from_source local: read_dir(build/lib)
    dpdks,          \* build_from_source local: read_dir(dpdk/build/lib)
    cc,             \* build_from_source local: argument vector of cc
    fat_so,         \* file system: the aggregated library written by cc
    stdout,         \* lines printed for cargo in this run
    header,         \* declarations of wrapper.h seen by bindgen
    bindings,       \* bindings.rs as generated / written
    panicMsg        \* message of the panic that ended the run

vars == <<pc, run, OUT_DIR, NUM_JOBS, target_arch, marker, markerAtStart,
          fetched, invoked, make_cmd, spdks, dpdks, cc, fat_so, stdout,
          header, bindings, panicMsg>>

envVars == <<OUT_DIR, NUM_JOBS, target_arch>>

\* a directory that was not read / a read_dir that failed
NoDir == [ok |-> FALSE, entries |-> <<>>]
NoFile == [exists |-> FALSE, path |-> ""]
NoBindings == [generated |-> FALSE, written |-> FALSE, items |-> {}]

Invocation(stage, status) == [stage |-> stage, status |-> status]

\* unwinding: the locals of build_from_source and main are dropped
Panic(msg) ==
    /\ pc' = "panic"
    /\ panicMsg' = msg
    /\ spdks' = NoDir
    /\ dpdks' = NoDir
    /\ cc' = <<>>

Init ==
    /\ pc = "provision"
    /\ run = 1
    /\ OUT_DIR \in OutDirs
    /\ NUM_JOBS \in NumJobs
    /\ target_arch \in Archs
    /\ marker \in BOOLEAN
    /\ markerAtStart = marker
    /\ fetched = FALSE
    /\ invoked = <<>>
    /\ make_cmd = <<>>
    /\ spdks = NoDir
    /\ dpdks = NoDir
    /\ cc = <<>>
    /\ fat_so = NoFile
    /\ stdout = <<>>
    /\ header = {}
    /\ bindings = NoBindings
    /\ panicMsg = NoPanic

----------------------------------------------------------------------------
(* SourceProvisioner: build.rs lines 98-103 *)

\* the fetch without the test for the marker
NeedsFetch_always(m) == TRUE

\* !Path::new("spdk/.git").exists()
NeedsFetch(m) == ~m

\* the marker is there: nothing is invoked
ProvisionSkip ==
    /\ pc = "provision"
    /\ ~NeedsFetch(marker)
    /\ pc' = "configure"
    /\ UNCHANGED <<run, envVars, marker, markerAtStart, fetched, invoked,
                   make_cmd, spdks, dpdks, cc, fat_so, stdout, header,
                   bindings, panicMsg>>

\* ProvisionFetch with the status checked as for the other commands
ProvisionFetch_fatal ==
    /\ pc = "provision"
    /\ NeedsFetch(marker)
    /\ \E status \in Outcomes, created \in BOOLEAN :
         /\ invoked' = Append(invoked, Invocation("fetch", status))
         /\ fetched' = (fetched \/ created)
         /\ marker' = (marker \/ created)
         /\ IF success(status)
              THEN /\ pc' = "configure"
                   /\ UNCHANGED <<panicMsg, spdks, dpdks, cc>>
              ELSE Panic("failed to fetch")
    /\ UNCHANGED <<run, envVars, markerAtStart, make_cmd, fat_so, stdout,
                   header, bindings>>

\* git submodule update --init --recursive; let _ = drops the Result, so
\* neither a failure to start nor a non-zero exit is looked at.  Whether the
\* command leaves spdk/.git behind is up to git.
ProvisionFetch ==
    /\ pc = "provision"
    /\ NeedsFetch(marker)
    /\ \E status \in Outcomes, created \in BOOLEAN :
         /\ invoked' = Append(invoked, Invocation("fetch", status))
         /\ fetched' = (fetched \/ created)
         /\ marker' = (marker \/ created)
    /\ pc' = "configure"
    /\ UNCHANGED <<run, envVars, markerAtStart, make_cmd, spdks, dpdks, cc,
                   fat_so, stdout, header, bindings, panicMsg>>

----------------------------------------------------------------------------
(* Configurator: build.rs lines 105-112 *)

\* Configure without the assert on the exit status
Configure_unchecked ==
    /\ pc = "configure"
    /\ \E status \in Outcomes :
         /\ invoked' = Append(invoked, Invocation("configure", status))
         /\ IF status = SpawnErr
              THEN Panic(ExpectMsg("failed to configure"))
              ELSE /\ pc' = "make"
                   /\ UNCHANGED <<panicMsg, spdks, dpdks, cc>>
    /\ UNCHANGED <<run, envVars, marker, markerAtStart, fetched, make_cmd,
                   fat_so, stdout, header, bindings>>

\* bash ./configure --without-isal in src
Configure ==
    /\ pc = "configure"
    /\ \E status \in Outcomes :
         /\ invoked' = Append(invoked, Invocation("configure", status))
         /\ IF status = SpawnErr
              THEN Panic(ExpectMsg("failed to configure"))
              ELSE IF ~success(status)
                THEN Panic(AssertMsg("failed to configure", status))
                ELSE /\ pc' = "make"
                     /\ UNCHANGED <<panicMsg, spdks, dpdks, cc>>
    /\ UNCHANGED <<run, envVars, marker, markerAtStart, fetched, make_cmd,
                   fat_so, stdout, header, bindings>>

----------------------------------------------------------------------------
(* NativeBuilder: build.rs lines 114-130 *)

GenericFlag == "DPDKBUILD_FLAGS=\"-Dplatform=generic\""

\* the aarch64 command line on every architecture
MakeArgs_always(arch, jobs) == <<GenericFlag, "-j" \o jobs>>

\* the two cfg(target_arch) variants of the make command line
MakeArgs(arch, jobs) ==
    IF arch = "aarch64"
      THEN <<GenericFlag, "-j" \o jobs>>
      ELSE <<"-j" \o jobs>>

Make ==
    /\ pc = "make"
    /\ make_cmd' = <<"make">> \o MakeArgs(target_arch, NUM_JOBS)
    /\ \E status \in Outcomes :
         /\ invoked' = Append(invoked, Invocation("make", status))
         /\ IF status = SpawnErr
              THEN Panic(ExpectMsg("failed to make"))
              ELSE IF ~success(status)
                THEN Panic(AssertMsg("failed to make", status))
                ELSE /\ pc' = "scan"
                     /\ UNCHANGED <<panicMsg, spdks, dpdks, cc>>
    /\ UNCHANGED <<run, envVars, marker, markerAtStart, fetched, fat_so,
                   stdout, header, bindings>>

----------------------------------------------------------------------------
(* ArchiveAggregator: build.rs lines 132-162 *)

\* a directory entry whose read fails (the Err item of the ReadDir iterator)
\* and a file name that is not valid UTF-8 (OsStr::to_str gives None)
EntryErr == "<io error>"
NonUtf8 == "<non-utf8>"

\* file names the two build output directories may hold
NamePool == {"libspdk_ut_mock.a", "libA.a", "libB.a", "libspdk.so", "spdk.a",
             EntryErr, NonUtf8}

\* the listings of one directory with at most n entries, in any order
Listings(n) ==
    UNION { { f \in [1..k -> NamePool] :
                \A i, j \in 1..k : i # j => f[i] # f[j] } : k \in 0..n }

\* fs::read_dir: the directory is missing, or its entries
ReadDirs(n) == {NoDir} \cup { [ok |-> TRUE, entries |-> l] : l \in Listings(n) }

\* the entries of a ReadDir, each with the directory it was read from
Entries(dir, rd) == [i \in 1..Len(rd.entries) |-> [dir |-> dir, name |-> rd.entries[i]]]

BuildLib == Join(src, "build/lib")
DpdkLib == Join(src, "dpdk/build/lib")

\* name == "libspdk_ut_mock.a"
is_mock(name) == name = "libspdk_ut_mock.a"

\* the test of the suffix alone
is_archive_suffix_only(name) == ends_with(name, ".a")

\* name.starts_with("lib") && name.ends_with(".a")
is_archive(name) == starts_with(name, "lib") /\ ends_with(name, ".a")

\* cc.arg(..) calls of lines 134-141
CcHead(out) == <<"-shared", "-o", out, "-laio", "-lnuma", "-luuid", "-lcrypto",
                 "-Wl,--whole-archive">>

RECURSIVE ScanLoop(_, _)
\* the for loop of lines 145-155 over spdks.chain(dpdks)
ScanLoop(es, args) ==
    IF es = <<>> THEN [args |-> args, panic |-> NoPanic]
    ELSE LET e == Head(es) IN
      IF e.name = EntryErr
        THEN [args |-> args, panic |-> ExpectMsg("failed to read directory entry")]
      ELSE IF e.name = NonUtf8
        THEN [args |-> args, panic |-> UnwrapNoneMsg]
      ELSE IF is_mock(e.name)
        THEN ScanLoop(Tail(es), args)
      ELSE IF is_archive(e.name)
        THEN ScanLoop(Tail(es), Append(args, Join(e.dir, e.name)))
      ELSE ScanLoop(Tail(es), args)

\* --no-whole-archive added before the loop instead of after it
CcArgs_closed_early(out, es) ==
    LET r == ScanLoop(es, CcHead(out) \o <<"-Wl,--no-whole-archive">>)
    IN  [args |-> r.args, panic |-> r.panic]

\* the complete argument vector of cc: lines 133-156
CcArgs(out, es) ==
    LET r == ScanLoop(es, CcHead(out))
    IN  [args |-> r.args \o <<"-Wl,--no-whole-archive">>, panic |-> r.panic]

\* lines 133-156: the two read_dir calls, then the loop
Scan ==
    /\ pc = "scan"
    /\ \E rs \in ReadDirs(MaxEntries) :
       \E rd \in ReadDirs(MaxEntries - Len(rs.entries)) :
         IF ~rs.ok \/ ~rd.ok
           THEN /\ Panic(UnwrapErrMsg)
                /\ invoked' = Append(invoked, Invocation("scan", 1))
           ELSE LET r == CcArgs(dst(OUT_DIR),
                                Entries(BuildLib, rs) \o Entries(DpdkLib, rd))
                IN  IF r.panic # NoPanic
                      THEN /\ Panic(r.panic)
                           /\ invoked' = Append(invoked, Invocation("scan", 1))
                      ELSE /\ spdks' = rs
                           /\ dpdks' = rd
                           /\ cc' = r.args
                           /\ pc' = "link"
                           /\ invoked' = Append(invoked, Invocation("scan", 0))
                           /\ UNCHANGED panicMsg
    /\ UNCHANGED <<run, envVars, marker, markerAtStart, fetched, make_cmd,
                   fat_so, stdout, header, bindings>>

\* what an archive of the pool defines and what it refers to
Exports(name) ==
    CASE name = "libA.a" -> {"X"}
      [] name = "libB.a" -> {"Y"}
      [] name = "spdk.a" -> {"W"}
      [] name = "libspdk_ut_mock.a" -> {"mock"}
      [] OTHER -> {}

References(name) == IF name = "libA.a" THEN {"Y"} ELSE {}

ArchiveDirs == {BuildLib, DpdkLib}

IsArchivePath(arg) == \E d \in ArchiveDirs, n \in NamePool : arg = Join(d, n)

FileName(arg) == CHOOSE n \in NamePool : \E d \in ArchiveDirs : arg = Join(d, n)

RECURSIVE LinkerExposed(_, _, _, _)
\* the linker, reading its arguments left to right: an archive between
\* --whole-archive and --no-whole-archive is taken whole, any other archive
\* only if it defines a symbol that is undefined so far
LinkerExposed(args, whole, defined, undefined) ==
    IF args = <<>> THEN defined
    ELSE LET a == Head(args) IN
      IF a = "-Wl,--whole-archive"
        THEN LinkerExposed(Tail(args), TRUE, defined, undefined)
      ELSE IF a = "-Wl,--no-whole-archive"
        THEN LinkerExposed(Tail(args), FALSE, defined, undefined)
      ELSE IF IsArchivePath(a)
        THEN LET n == FileName(a)
                 taken == whole \/ (Exports(n) \cap undefined # {})
             IN  IF taken
                   THEN LinkerExposed(Tail(args), whole,
                                      defined \cup Exports(n),
                                      (undefined \cup References(n))
                                         \ (defined \cup Exports(n)))
                   ELSE LinkerExposed(Tail(args), whole, defined, undefined)
      ELSE LinkerExposed(Tail(args), whole, defined, undefined)

\* cc.status() and the assert: lines 157-162; the function returns and its
\* locals are dropped
Link ==
    /\ pc = "link"
    /\ \E status \in Outcomes :
         /\ invoked' = Append(invoked, Invocation("link", status))
         /\ IF status = SpawnErr
              THEN /\ Panic(ExpectMsg("failed to generate libspdk_fat.so"))
                   /\ UNCHANGED fat_so
              ELSE IF ~success(status)
                THEN /\ Panic(AssertMsg("failed to generate libspdk_fat.so", status))
                     /\ UNCHANGED fat_so
                ELSE /\ fat_so' = [exists |-> TRUE, path |-> cc[3]]
                     /\ pc' = "emit"
                     /\ spdks' = NoDir
                     /\ dpdks' = NoDir
                     /\ cc' = <<>>
                     /\ UNCHANGED panicMsg
    /\ UNCHANGED <<run, envVars, marker, markerAtStart, fetched, make_cmd,
                   stdout, header, bindings>>

----------------------------------------------------------------------------
(* Link directives: build.rs lines 11-25 *)

\* the search path pointing at the source tree
LinkDirectives_src(out_dir) ==
    << "cargo:rustc-link-lib=spdk_fat",
       "cargo:rustc-link-lib=aio",
       "cargo:rustc-link-lib=numa",
       "cargo:rustc-link-lib=uuid",
       "cargo:rustc-link-lib=crypto",
       "cargo:rustc-link-lib=stdc++",
       "cargo:rustc-link-lib=ssl",
       "cargo:rustc-link-search=native=" \o src,
       "cargo:rerun-if-changed=wrapper.h" >>

\* the println! calls of lines 12-25, in order
LinkDirectives(out_dir) ==
    << "cargo:rustc-link-lib=spdk_fat",
       "cargo:rustc-link-lib=aio",
       "cargo:rustc-link-lib=numa",
       "cargo:rustc-link-lib=uuid",
       "cargo:rustc-link-lib=crypto",
       "cargo:rustc-link-lib=stdc++",
       "cargo:rustc-link-lib=ssl",
       "cargo:rustc-link-search=native=" \o out_dir,
       "cargo:rerun-if-changed=wrapper.h" >>

\* main after build_from_source has returned: lines 11-25
Emit ==
    /\ pc = "emit"
    /\ stdout' = stdout \o LinkDirectives(OUT_DIR)
    /\ pc' = "bindgen"
    /\ UNCHANGED <<run, envVars, marker, markerAtStart, fetched, invoked,
                   make_cmd, spdks, dpdks, cc, fat_so, header, bindings,
                   panicMsg>>

----------------------------------------------------------------------------
(* BindingGenerator and its DeclarationFilter: build.rs lines 27-73 *)

\* the set with the entry of line 34 that is commented out
ignored_macros_with_ipport ==
    {"FP_INFINITE", "FP_NAN", "FP_NORMAL", "FP_SUBNORMAL", "FP_ZERO",
     "IPPORT_RESERVED"}

\* lines 27-38
ignored_macros == {"FP_INFINITE", "FP_NAN", "FP_NORMAL", "FP_SUBNORMAL", "FP_ZERO"}

\* line 51
blocklist_item == {"IPPORT_.*"}

\* lines 53-61
blocklist_type ==
    {"spdk_nvme_tcp_rsp", "spdk_nvme_tcp_cmd", "spdk_nvmf_fabric_prop_get_rsp",
     "spdk_nvmf_fabric_connect_rsp", "spdk_nvmf_fabric_connect_cmd",
     "spdk_nvmf_fabric_auth_send_cmd", "spdk_nvmf_fabric_auth_recv_cmd",
     "spdk_nvme_health_information_page", "spdk_nvme_ctrlr_data"}

\* line 62
blocklist_function == {"spdk_nvme_ctrlr_get_data"}

\* line 63
opaque_type == {"spdk_nvme_sgl_descriptor"}

\* a rule of the builder is a regular expression that has to match the whole
\* name; the rules used here are literal names or a literal followed by .*
Matches(pattern, name) ==
    IF ends_with(pattern, ".*")
      THEN starts_with(name, SubSeq(pattern, 1, Len(pattern) - 2))
      ELSE name = pattern

MatchesAny(patterns, name) == \E p \in patterns : Matches(p, name)

\* IgnoreMacros::will_parse_macro: lines 79-87
will_parse_macro(name) == IF name \in ignored_macros THEN "Ignore" ELSE "Default"

\* declarations wrapper.h may hold: the names the rules are about under the
\* kind they are written for, and near misses of the rules
Decls ==
    [name : {"FP_INFINITE", "FP_NAN", "FP_NORMAL", "FP_SUBNORMAL", "FP_ZERO",
             "IPPORT_RESERVED"}, kind : {"macro"}]
    \cup [name : blocklist_type \cup opaque_type \cup {"spdk_nvme_tcp_rsp_t"},
          kind : {"type"}]
    \cup [name : {"spdk_nvme_ctrlr_get_data", "spdk_nvme_probe"},
          kind : {"function"}]

\* the headers with at most n declarations
Headers(n) ==
    UNION { { {f[i] : i \in 1..k} : f \in [1..k -> Decls] } : k \in 0..n }

\* what the generator does with one declaration:
\* "ignored" (not parsed), "blocked" (not emitted), "opaque" or "full"
Treatment(d) ==
    IF d.kind = "macro" /\ will_parse_macro(d.name) = "Ignore" THEN "ignored"
    ELSE IF MatchesAny(blocklist_item, d.name) THEN "blocked"
    ELSE IF d.kind = "type" /\ MatchesAny(blocklist_type, d.name) THEN "blocked"
    ELSE IF d.kind = "function" /\ MatchesAny(blocklist_function, d.name) THEN "blocked"
    ELSE IF d.kind = "type" /\ MatchesAny(opaque_type, d.name) THEN "opaque"
    ELSE "full"

\* Builder::generate on a header that parses
Generate(h) ==
    { [name |-> d.name, kind |-> d.kind, form |-> Treatment(d)] :
        d \in { x \in h : Treatment(x) \in {"opaque", "full"} } }

\* lines 27-67: build the filter, parse wrapper.h, generate
Bindgen ==
    /\ pc = "bindgen"
    /\ \/ /\ Panic("Unable to generate bindings: clang diagnosed error")
          /\ invoked' = Append(invoked, Invocation("bindgen", 1))
          /\ UNCHANGED <<header, bindings>>
       \/ \E h \in Headers(MaxDecls) :
            /\ header' = h
            /\ bindings' = [generated |-> TRUE, written |-> FALSE,
                            items |-> Generate(h)]
            /\ invoked' = Append(invoked, Invocation("bindgen", 0))
            /\ pc' = "write"
            /\ UNCHANGED <<panicMsg, spdks, dpdks, cc>>
    /\ UNCHANGED <<run, envVars, marker, markerAtStart, fetched, make_cmd,
                   fat_so, stdout>>

\* lines 69-73: bindings.write_to_file(OUT_DIR/bindings.rs)
Write ==
    /\ pc = "write"
    /\ \/ /\ Panic(ExpectMsg("Couldn't write bindings!"))
          /\ UNCHANGED bindings
       \/ /\ bindings' = [bindings EXCEPT !.written = TRUE]
          /\ pc' = "done"
          /\ UNCHANGED <<panicMsg, spdks, dpdks, cc>>
    /\ UNCHANGED <<run, envVars, marker, markerAtStart, fetched, invoked,
                   make_cmd, fat_so, stdout, header>>

----------------------------------------------------------------------------
(* The host build runs the script again: lines 6-7 *)

NewRun ==
    /\ pc \in {"done", "panic"}
    /\ run < MaxRuns
    /\ run' = run + 1
    /\ pc' = "provision"
    /\ markerAtStart' = marker
    /\ invoked' = <<>>
    /\ make_cmd' = <<>>
    /\ stdout' = <<>>
    /\ header' = {}
    /\ bindings' = NoBindings
    /\ panicMsg' = NoPanic
    /\ UNCHANGED <<envVars, marker, fetched, spdks, dpdks, cc, fat_so>>

Next ==
    \/ ProvisionSkip
    \/ ProvisionFetch
    \/ Configure
    \/ Make
    \/ Scan
    \/ Link
    \/ Emit
    \/ Bindgen
    \/ Write
    \/ NewRun

Spec == Init /\ [][Next]_vars

----------------------------------------------------------------------------
(* Properties *)

Range(seq) == {seq[i] : i \in 1..Len(seq)}

Last(seq) == seq[Len(seq)]

Rank(stage) ==
    CASE stage = "fetch" -> 1
      [] stage = "configure" -> 2
      [] stage = "make" -> 3
      [] stage = "scan" -> 4
      [] stage = "link" -> 5
      [] stage = "bindgen" -> 6

FatalStages == {"configure", "make", "scan", "link", "bindgen"}

Count(stage) == Cardinality({i \in 1..Len(invoked) : invoked[i].stage = stage})

\* C1: the stages of a run are invoked in the order fetch, configure, make,
\* directory scan, link, binding generation, and a stage is invoked only if
\* every fatal stage before it was invoked and succeeded.
C1_FailFastOrdering ==
    \A j \in 1..Len(invoked) :
      /\ \A i \in 1..(j - 1) : Rank(invoked[i].stage) < Rank(invoked[j].stage)
      /\ \A s \in FatalStages :
           Rank(s) < Rank(invoked[j].stage)
             => \E i \in 1..(j - 1) : invoked[i].stage = s /\ invoked[i].status = 0

\* a run in which configure exited non-zero and that ended there
C1_Witness ==
    /\ pc = "panic"
    /\ invoked # <<>>
    /\ Last(invoked) = Invocation("configure", 1)

\* the archive naming convention, less the test-mock archive
C2_Wanted(name) ==
    /\ Len(name) >= 5
    /\ SubSeq(name, 1, 3) = "lib"
    /\ SubSeq(name, Len(name) - 1, Len(name)) = ".a"
    /\ name # "libspdk_ut_mock.a"

C2_FixedArgs ==
    {"-shared", "-o", OUT_DIR \o "/libspdk_fat.so", "-laio", "-lnuma", "-luuid",
     "-lcrypto", "-Wl,--whole-archive", "-Wl,--no-whole-archive"}

\* C2: the paths handed to the linker are exactly the entries of build/lib
\* and dpdk/build/lib named lib*.a, less those named libspdk_ut_mock.a.
C2_ArchiveSelection ==
    pc = "link" =>
      Range(cc) \ C2_FixedArgs =
        { BuildLib \o "/" \o n : n \in { m \in Range(spdks.entries) : C2_Wanted(m) } }
          \cup
        { DpdkLib \o "/" \o n : n \in { m \in Range(dpdks.entries) : C2_Wanted(m) } }

\* a scan that met the mock archive in build/lib and an archive in
\* dpdk/build/lib
C2_Witness ==
    /\ pc = "link"
    /\ "libspdk_ut_mock.a" \in Range(spdks.entries)
    /\ "libA.a" \in Range(dpdks.entries)
    /\ Join(DpdkLib, "libA.a") \in Range(cc)

C3_Archives == {i \in 1..Len(cc) : IsArchivePath(cc[i])}

\* C3: in the linker's argument vector every archive stands after
\* --whole-archive and before --no-whole-archive, so that the library exposes
\* the symbols of all archives handed over, in whatever order they were found.
C3_WholeArchive ==
    pc = "link" =>
      /\ \E on, off \in 1..Len(cc) :
           /\ cc[on] = "-Wl,--whole-archive"
           /\ cc[off] = "-Wl,--no-whole-archive"
           /\ \A k \in C3_Archives : on < k /\ k < off
      /\ LinkerExposed(cc, FALSE, {}, {})
           = UNION { Exports(FileName(cc[k])) : k \in C3_Archives }

\* libA.a (defines X, refers to Y) found before libB.a (defines Y)
C3_Witness ==
    /\ pc = "link"
    /\ \E i, j \in 1..Len(cc) :
         /\ i < j
         /\ IsArchivePath(cc[i]) /\ FileName(cc[i]) = "libA.a"
         /\ IsArchivePath(cc[j]) /\ FileName(cc[j]) = "libB.a"
    /\ {"X", "Y"} \subseteq LinkerExposed(cc, FALSE, {}, {})

\* C4: make is invoked once, with -j<NUM_JOBS>, and with the DPDKBUILD_FLAGS
\* variable exactly when the architecture is aarch64.
C4_ArchFlag ==
    /\ Count("make") <= 1
    /\ pc \in {"scan", "link", "emit", "bindgen", "write", "done"} => Count("make") = 1
    /\ Count("make") = 1 =>
         /\ make_cmd[1] = "make"
         /\ ("-j" \o NUM_JOBS) \in Range(make_cmd)
         /\ (\E a \in Range(make_cmd) : starts_with(a, "DPDKBUILD_FLAGS="))
              <=> target_arch = "aarch64"
         /\ \A a \in Range(make_cmd) :
              starts_with(a, "DPDKBUILD_FLAGS=")
                => a = "DPDKBUILD_FLAGS=\"-Dplatform=generic\""
    /\ Count("make") = 0 => make_cmd = <<>>

\* make has run for aarch64
C4_Witness ==
    /\ pc = "scan"
    /\ target_arch = "aarch64"
    /\ Len(make_cmd) = 3

\* C5: a run that starts with spdk/.git in place fetches nothing, and no run
\* fetches more than once.
C5_FetchIdempotent ==
    /\ Count("fetch") <= 1
    /\ markerAtStart => Count("fetch") = 0
    /\ Count("fetch") = 1 => ~markerAtStart

\* the second run, after the fetch of the first run has created the marker,
\* is past the provisioning and has fetched nothing
C5_Witness ==
    /\ run = 2
    /\ fetched
    /\ markerAtStart
    /\ pc = "done"
    /\ Count("fetch") = 0

\* C6: a failed fetch does not end the run: configure is invoked after it,
\* and a run that panics does so in configure or later.
C6_FetchNonFatal ==
    /\ pc = "panic" => invoked # <<>> /\ Last(invoked).stage # "fetch"
    /\ pc \notin {"provision", "configure"} => Count("configure") = 1
    /\ \A i \in 1..Len(invoked) :
         invoked[i].stage = "fetch" /\ invoked[i].status # 0 => pc # "provision"

\* the fetch could not be started, and the run completed all the same
C6_Witness ==
    /\ pc = "done"
    /\ invoked[1] = Invocation("fetch", SpawnErr)
    /\ invoked[2] = Invocation("configure", 0)

\* the rule sets of the filter a name falls under
C7_RuleSets(name) ==
    { rs \in {"ignored macros", "blocklist", "opaque types"} :
        \/ rs = "ignored macros" /\ name \in ignored_macros
        \/ rs = "blocklist"
             /\ MatchesAny(blocklist_item \cup blocklist_type \cup blocklist_function,
                           name)
        \/ rs = "opaque types" /\ MatchesAny(opaque_type, name) }

\* C7: no name declared in the header the generator has parsed falls under
\* more than one of the rule sets ignored macros, blocklist, opaque types.
C7_RuleSetsDisjoint ==
    \A d \in header : Cardinality(C7_RuleSets(d.name)) <= 1

\* the generator has dropped a declaration that the IPPORT_.* pattern covers
C7_Witness ==
    /\ pc = "done"
    /\ [name |-> "IPPORT_RESERVED", kind |-> "macro"] \in header
    /\ bindings.written
    /\ bindings.items = {}

\* C8: a run that completes has printed the link directive for spdk_fat and
\* for aio, numa, uuid, crypto, stdc++ and ssl, a search path that is the
\* directory the linker wrote libspdk_fat.so to, and the rebuild trigger on
\* wrapper.h.
C8_LinkSpecification ==
    pc = "done" =>
      /\ \A lib \in {"spdk_fat", "aio", "numa", "uuid", "crypto", "stdc++", "ssl"} :
           ("cargo:rustc-link-lib=" \o lib) \in Range(stdout)
      /\ "cargo:rerun-if-changed=wrapper.h" \in Range(stdout)
      /\ fat_so.exists
      /\ \E dir \in OutDirs \cup {src, CurrentDir} :
           /\ ("cargo:rustc-link-search=native=" \o dir) \in Range(stdout)
           /\ fat_so.path = dir \o "/libspdk_fat.so"
      /\ \A line \in Range(stdout) :
           starts_with(line, "cargo:rustc-link-search=")
             => line = "cargo:rustc-link-search=native=" \o OUT_DIR

\* a completed run
C8_Witness ==
    /\ pc = "done"
    /\ Len(stdout) = 9
    /\ fat_so.exists
    /\ Last(invoked) = Invocation("bindgen", 0)

\* the statement that names a stage
C9_Statement(stage) ==
    CASE stage = "configure" -> "failed to configure"
      [] stage = "make" -> "failed to make"
      [] stage = "scan" -> "failed to read directory"
      [] stage = "link" -> "failed to generate libspdk_fat.so"
      [] stage = "bindgen" -> "Unable to generate bindings"
      [] OTHER -> "failed"

\* C9: a run that was aborted by a failure of configure, make, the
\* directory scan, the linker or the binding generator ends with a message
\* that names that stage and, for a tool that exited non-zero, its exit status.
C9_AbortNamesStage ==
    (pc = "panic" /\ invoked # <<>> /\ Last(invoked).status # 0) =>
      /\ starts_with(panicMsg, C9_Statement(Last(invoked).stage))
      /\ (Last(invoked).stage \in {"configure", "make", "link"}
            /\ Last(invoked).status \in ExitCodes)
           => ends_with(panicMsg, DisplayStatus(Last(invoked).status))

\* C10: a run that was aborted has printed no link directive for the
\* aggregated library.
C10_NoDirectiveOnAbort ==
    pc = "panic" => "cargo:rustc-link-lib=spdk_fat" \notin Range(stdout)

====
